---- MODULE Spec2Model ----
(***************************************************************************)
(* Riddle backend (backend/app.py): riddle delivery with per-user seen     *)
(* tracking, generation with deduplication, and answer checking with the   *)
(* two-guess rule.  Text is a sequence of one-character strings, so that   *)
(* lower(), strip(), split() and the content hash are computed, not        *)
(* assumed.  Every request is a process: it reads the user document when   *)
(* it is authenticated and then performs its store operations one by one.  *)
(***************************************************************************)
EXTENDS Integers, Sequences, FiniteSets, TLC

VARIABLES
    riddles,    \* the riddles collection, in insertion order
    users,      \* the users collection: user id -> document
    today,      \* the current UTC date, as a day number
    req,        \* worker -> the request it is serving
    submitted,  \* user id -> riddle id -> /check requests received since the
                \* riddle was last delivered to the user (counted up to 3)
    daily_challenges,   \* the daily_challenges collection, in insertion order
    awarded,    \* user id -> the riddles a /check verdict of the user was
                \* correct for since the user's last reset-history
    disclosed,  \* user id -> the dates on which a /daily-challenge/answer
                \* response to the user carried the challenge's answer
    multiplayer_rooms   \* the multiplayer_rooms collection, in insertion order

vars == <<riddles, users, today, req, submitted, daily_challenges, awarded,
          disclosed, multiplayer_rooms>>

(* ------------------------------ bounds --------------------------------- *)

MaxRiddles == 3
PlayRiddles == 2
ConcRiddles == 4
MaxSolved == 2
MaxDay == 3
MaxUsers == 3
StreakRiddles == 1
MaxDailyAnswers == 3
ResetSolved == 1
MaxRooms == 1

(* ------------------------------- text ---------------------------------- *)

UPPER == [K |-> "k", E |-> "e", Y |-> "y", Q |-> "q", M |-> "m", A |-> "a"]

LowerChar(c) == IF c \in DOMAIN UPPER THEN UPPER[c] ELSE c

RECURSIVE lower(_)
lower(s) == IF s = <<>> THEN <<>> ELSE <<LowerChar(Head(s))>> \o lower(Tail(s))

RECURSIVE lstrip(_)
lstrip(s) == IF s # <<>> /\ Head(s) = " " THEN lstrip(Tail(s)) ELSE s

RECURSIVE rstrip(_)
rstrip(s) == IF s # <<>> /\ s[Len(s)] = " " THEN rstrip(SubSeq(s, 1, Len(s) - 1)) ELSE s

strip(s) == rstrip(lstrip(s))

RECURSIVE WordEnd(_, _)
WordEnd(s, i) == IF i > Len(s) \/ s[i] = " " THEN i ELSE WordEnd(s, i + 1)

RECURSIVE split(_)
split(s) ==
    LET t == lstrip(s) IN
    IF t = <<>> THEN <<>>
    ELSE LET n == WordEnd(t, 1) IN <<SubSeq(t, 1, n - 1)>> \o split(SubSeq(t, n, Len(t)))

Contains(sub, s) ==
    \E i \in 0..(Len(s) - Len(sub)) : SubSeq(s, i + 1, i + Len(sub)) = sub

(* ----------------------------- constants ------------------------------- *)

RIDDLE_CATEGORIES == {"logic", "wordplay", "math", "nature", "objects", "general"}

COMMON_ANSWERS ==
    { <<"c", "l", "o", "c", "k">>, <<"s", "h", "a", "d", "o", "w">>,
      <<"m", "i", "r", "r", "o", "r">>, <<"t", "i", "m", "e">>,
      <<"e", "c", "h", "o">>, <<"s", "i", "l", "e", "n", "c", "e">>,
      <<"b", "r", "e", "a", "t", "h">>, <<"d", "a", "r", "k", "n", "e", "s", "s">>,
      <<"l", "i", "g", "h", "t">>, <<"f", "i", "r", "e">>,
      <<"c", "a", "n", "d", "l", "e">>, <<"r", "i", "v", "e", "r">>,
      <<"c", "l", "o", "u", "d">>, <<"e", "g", "g">>,
      <<"t", "o", "w", "e", "l">>, <<"k", "e", "y", "b", "o", "a", "r", "d">>,
      <<"s", "t", "a", "m", "p">>, <<"b", "o", "t", "t", "l", "e">>,
      <<"p", "e", "n", "c", "i", "l">>, <<"c", "o", "i", "n">> }

max_retries == 5
CacheThreshold == 3
MaxAttempts == 2
FirstTryBonus == 5
Penalty == 5
DefaultPoints == 10
MaxWords == 5

difficulty_points == [easy |-> 10, medium |-> 15, hard |-> 20]

(* ------------------------------ documents ------------------------------ *)

Users == {"u1"}
Procs == {"p1", "p2"}

NoText == <<>>

NoRiddle ==
    [id |-> 0, question |-> NoText, answer |-> NoText, riddle_hash |-> NoText,
     category |-> "", difficulty |-> "", language |-> ""]

\* the user document created by signup
NewUser ==
    [email |-> "", seen_riddles |-> <<>>, current_riddle_attempts |-> <<>>,
     points |-> 0, solved |-> 0, correct |-> 0, streak |-> 0, last_active |-> 0,
     daily_challenges_completed |-> <<>>]

NoResp ==
    [status |-> 0, id |-> 0, correct |-> FALSE, answer |-> <<>>, detail |-> <<>>,
     points_change |-> 0, attempts_left |-> 0]

\* find_one on multiplayer_rooms found nothing
NoRoom == [id |-> 0, host_id |-> "", players |-> <<>>, max_players |-> 0]

Idle ==
    [pc |-> "idle", kind |-> "", uid |-> "", user |-> NewUser, email |-> "",
     language |-> "",
     category |-> "", rid |-> 0, date |-> 0, answer |-> NoText, attempt |-> 0,
     calls |-> 0,
     base |-> 0, unseen |-> {}, cand |-> NoRiddle, en |-> NoRiddle,
     riddle |-> NoRiddle, gencat |-> "", room |-> NoRoom, resp |-> NoResp]

Range(s) == {s[i] : i \in DOMAIN s}

Min(a, b) == IF a < b THEN a ELSE b

\* the array replaced by the one element ($set where $addToSet is meant)
AddToSetOverwrites(arr, x) == <<x>>

\* $addToSet on an array field
AddToSet(arr, x) == IF x \in Range(arr) THEN arr ELSE Append(arr, x)

\* dict.get(key, default)
Get(map, key, default) == IF key \in DOMAIN map THEN map[key] ELSE default

\* the key written only when it is absent ($setOnInsert where $set is meant)
SetKeyOnce(map, key, val) ==
    [k \in DOMAIN map \cup {key} |-> IF k \in DOMAIN map THEN map[k] ELSE val]

\* $set of one key of an embedded document
SetKey(map, key, val) == [k \in DOMAIN map \cup {key} |-> IF k = key THEN val ELSE map[k]]

create_riddle_hash(question, answer) == strip(lower(question)) \o strip(lower(answer))

\* the unique index on riddles.riddle_hash
HashTaken(h) == \E i \in DOMAIN riddles : riddles[i].riddle_hash = h

check_riddle_exists(answer, question) ==
    \/ \E i \in DOMAIN riddles :
          riddles[i].answer = strip(lower(answer)) /\ riddles[i].language = "en"
    \/ question # NoText /\ HashTaken(create_riddle_hash(question, answer))

\* the lookup without its filter on the id
FindRiddleAnyId(rid) ==
    IF riddles # <<>> THEN riddles[1] ELSE NoRiddle

\* db.riddles.find_one({"_id": ...})
FindRiddle(rid) ==
    IF \E i \in DOMAIN riddles : riddles[i].id = rid
    THEN riddles[CHOOSE i \in DOMAIN riddles : riddles[i].id = rid]
    ELSE NoRiddle

(* ------------------- generate_fresh_ai_riddle -------------------------- *)

\* Replies of the generation provider: an API error, text without a JSON
\* object, or a JSON object (difficulty "" when the key is missing).
Reply(kind, question, answer, difficulty) ==
    [kind |-> kind, question |-> question, answer |-> answer, difficulty |-> difficulty]

\* lines 222-235: the candidate is dropped and the attempt is used up
Rejected(answer, question) ==
    \/ Len(split(answer)) > 1
    \/ answer \in COMMON_ANSWERS
    \/ check_riddle_exists(answer, question)

\* one attempt too many
LoopDoneLate(attempt) == attempt > max_retries

\* for attempt in range(max_retries)
LoopDone(attempt) == attempt >= max_retries

\* an attempt that ends in `continue` (or falls through without a match)
GenFail(r) ==
    [r EXCEPT !.attempt = @ + 1, !.cand = NoRiddle,
              !.pc = IF LoopDone(r.attempt + 1) THEN "post" ELSE "gen"]

\* lines 166-254: one provider request and the validation of its reply
GenAttempt(p, out) ==
    LET r == req[p]
        answer == strip(lower(out.answer))
        question == strip(out.question)
    IN  /\ r.pc = "gen"
        /\ req' = [req EXCEPT ![p] =
              IF out.kind # "json" \/ Rejected(answer, question)
              THEN GenFail([r EXCEPT !.calls = @ + 1])
              ELSE [r EXCEPT !.pc = "insert", !.calls = @ + 1,
                             !.cand = [id |-> 0, question |-> question, answer |-> answer,
                                       riddle_hash |-> create_riddle_hash(question, answer),
                                       category |-> r.gencat,
                                       difficulty |-> IF out.difficulty = "" THEN "medium"
                                                      ELSE out.difficulty,
                                       language |-> "en"]]]
        /\ UNCHANGED <<riddles, users, today, submitted, daily_challenges,
                 awarded, disclosed, multiplayer_rooms>>

\* insert_one under the unique index on riddle_hash
InsertOk(doc) == ~HashTaken(doc.riddle_hash)

\* lines 256-262: insert_one; a DuplicateKeyError is caught like any exception
GenInsert(p) ==
    LET r == req[p]
        new == [r.cand EXCEPT !.id = Len(riddles) + 1]
    IN  /\ r.pc = "insert"
        /\ IF InsertOk(new)
           THEN /\ riddles' = Append(riddles, new)
                /\ req' = [req EXCEPT ![p] = [r EXCEPT !.pc = "post", !.en = new,
                                                       !.cand = NoRiddle]]
           ELSE /\ riddles' = riddles
                /\ req' = [req EXCEPT ![p] = GenFail(r)]
        /\ UNCHANGED <<users, today, submitted, daily_challenges,
                 awarded, disclosed, multiplayer_rooms>>

(* --------------------------- get_random_riddle ------------------------- *)

\* get_current_user: the user document is read once, when the request starts
StartDeliver(p, u, language, category) ==
    /\ req[p].pc = "idle"
    /\ req' = [req EXCEPT ![p] = [Idle EXCEPT !.pc = "query", !.kind = "get_random_riddle",
                                              !.uid = u, !.user = users[u],
                                              !.language = language,
                                              !.category = category]]
    /\ UNCHANGED <<riddles, users, today, submitted, daily_challenges,
                 awarded, disclosed, multiplayer_rooms>>

\* lines 442-449: the category narrows the query only when it is a known one
Matches(doc, language, category, seen) ==
    /\ doc.language = language
    /\ doc.id \notin seen
    /\ (category # "" /\ category \in RIDDLE_CATEGORIES) => doc.category = category

\* the threshold one too low
EnoughAtTwo(unseen) == Cardinality(unseen) >= CacheThreshold - 1

\* len(unseen_riddles) >= 3
Enough(unseen) == Cardinality(unseen) >= CacheThreshold

\* lines 432-463: query the unseen riddles; take a cached one or start generating
DeliverQuery(p) ==
    LET r == req[p]
        seen == Range(r.user.seen_riddles)
        unseen == {riddles[i] : i \in {j \in DOMAIN riddles :
                                   Matches(riddles[j], r.language, r.category, seen)}}
    IN  /\ r.pc = "query"
        /\ IF Enough(unseen)
           THEN \E doc \in unseen :
                   req' = [req EXCEPT ![p] = [r EXCEPT !.pc = "mark", !.unseen = unseen,
                                                       !.base = Len(riddles),
                                                       !.riddle = doc]]
           ELSE req' = [req EXCEPT ![p] = [r EXCEPT !.pc = "gen", !.unseen = unseen,
                                                    !.base = Len(riddles),
                                                    !.gencat = IF r.category = "" THEN "general"
                                                               ELSE r.category]]
        /\ UNCHANGED <<riddles, users, today, submitted, daily_challenges,
                 awarded, disclosed, multiplayer_rooms>>

\* the response with the opposite verdict
RespondNegated(r, resp) == [r EXCEPT !.pc = "done", !.resp = [resp EXCEPT !.correct = ~@]]

\* the handler returns (or raises) and the response goes out
Respond(r, resp) == [r EXCEPT !.pc = "done", !.resp = resp]

\* the translation provider turns text into Hindi text; on any error the
\* text comes back as it was
Hindi(text) == <<"hi:">> \o text
translate_to_hindi(text, ok) == IF ok THEN Hindi(text) ELSE text

\* lines 486-500; the four translate calls succeed or fail independently
hindi_riddle(en, tr) ==
    [id |-> 0,
     question |-> translate_to_hindi(en.question, tr[1]),
     answer |-> translate_to_hindi(en.answer, tr[2]),
     riddle_hash |-> create_riddle_hash(translate_to_hindi(en.question, tr[3]),
                                        translate_to_hindi(en.answer, tr[4])),
     category |-> en.category, difficulty |-> en.difficulty, language |-> "hi"]

\* lines 465-504: what follows generate_fresh_ai_riddle in the handler
DeliverPost(p, tr) ==
    LET r == req[p]
        all_riddles == {riddles[i] : i \in {j \in DOMAIN riddles :
                                        riddles[j].language = r.language}}
        hi == [hindi_riddle(r.en, tr) EXCEPT !.id = Len(riddles) + 1]
    IN  /\ r.pc = "post"
        /\ r.kind = "get_random_riddle"
        /\ IF r.en = NoRiddle
           THEN IF r.unseen # {}
                THEN /\ \E doc \in r.unseen :
                          req' = [req EXCEPT ![p] = [r EXCEPT !.pc = "mark", !.riddle = doc]]
                     /\ UNCHANGED <<riddles, users>>
                ELSE IF all_riddles # {}
                THEN /\ \E doc \in all_riddles :
                          req' = [req EXCEPT ![p] = [r EXCEPT !.pc = "mark", !.riddle = doc]]
                     /\ users' = [users EXCEPT ![r.uid].seen_riddles = <<>>]
                     /\ UNCHANGED riddles
                ELSE /\ req' = [req EXCEPT ![p] = Respond(r, [NoResp EXCEPT !.status = 503])]
                     /\ UNCHANGED <<riddles, users>>
           ELSE IF r.language = "hi"
                THEN IF InsertOk(hi)
                     THEN /\ riddles' = Append(riddles, hi)
                          /\ req' = [req EXCEPT ![p] = [r EXCEPT !.pc = "mark", !.riddle = hi]]
                          /\ UNCHANGED users
                     ELSE \* DuplicateKeyError, not caught by the handler
                          /\ req' = [req EXCEPT ![p] =
                                        Respond(r, [NoResp EXCEPT !.status = 500])]
                          /\ UNCHANGED <<riddles, users>>
                ELSE /\ req' = [req EXCEPT ![p] = [r EXCEPT !.pc = "mark", !.riddle = r.en]]
                     /\ UNCHANGED <<riddles, users>>
        /\ UNCHANGED <<today, submitted, daily_challenges,
                 awarded, disclosed, multiplayer_rooms>>

\* lines 506-529: mark the riddle as seen, open its attempt counter, answer
DeliverMark(p) ==
    LET r == req[p]
        riddle_id == r.riddle.id
    IN  /\ r.pc = "mark"
        /\ users' = [users EXCEPT ![r.uid] =
              [@ EXCEPT !.seen_riddles = AddToSet(@, riddle_id),
                        !.current_riddle_attempts = SetKey(@, riddle_id, 0)]]
        /\ req' = [req EXCEPT ![p] =
              Respond(r, [NoResp EXCEPT !.status = 200, !.id = riddle_id,
                                        !.attempts_left = MaxAttempts])]
        /\ submitted' = [submitted EXCEPT ![r.uid] = SetKey(@, riddle_id, 0)]
        /\ UNCHANGED <<riddles, today, daily_challenges, awarded, disclosed, multiplayer_rooms>>

\* the response has been sent; the worker is free again
Return(p) ==
    /\ req[p].pc = "done"
    /\ req' = [req EXCEPT ![p] = Idle]
    /\ UNCHANGED <<riddles, users, today, submitted, daily_challenges,
                 awarded, disclosed, multiplayer_rooms>>

(* ------------------------------ check_answer --------------------------- *)

StartSubmit(p, u, rid, answer) ==
    /\ req[p].pc = "idle"
    /\ req' = [req EXCEPT ![p] = [Idle EXCEPT !.pc = "check", !.kind = "check_answer",
                                              !.uid = u, !.user = users[u],
                                              !.rid = rid, !.answer = answer]]
    /\ UNCHANGED <<riddles, users, today, submitted, daily_challenges,
                 awarded, disclosed, multiplayer_rooms>>

\* the guard one too late
BlockedAboveTwo(current_attempts) == current_attempts > MaxAttempts

\* line 547: the guess channel is closed
Blocked(current_attempts) == current_attempts >= MaxAttempts

\* the tolerance without the limit on the number of words
IsCorrectAnyLength(given, stored) ==
    LET user_answer == lower(strip(given))
        correct_answer == lower(strip(stored))
    IN  \/ user_answer = correct_answer
        \/ Contains(correct_answer, user_answer)

\* lines 553-564: exact match, or the answer inside a short submission
IsCorrect(given, stored) ==
    LET user_answer == lower(strip(given))
        correct_answer == lower(strip(stored))
    IN  \/ user_answer = correct_answer
        \/ /\ Contains(correct_answer, user_answer)
           /\ Len(split(user_answer)) <= MaxWords

\* difficulty_points.get(riddle.get("difficulty", "medium"), 10)
BasePoints(difficulty) ==
    IF difficulty \in DOMAIN difficulty_points THEN difficulty_points[difficulty]
    ELSE DefaultPoints

\* the first-try bonus given at every attempt
PointsChangeAlwaysBonus(correct, difficulty, current_attempts) ==
    IF correct THEN BasePoints(difficulty) + FirstTryBonus
    ELSE IF current_attempts + 1 >= MaxAttempts THEN 0 - Penalty
    ELSE 0

\* lines 574-624
PointsChange(correct, difficulty, current_attempts) ==
    IF correct
    THEN BasePoints(difficulty) + (IF current_attempts = 0 THEN FirstTryBonus ELSE 0)
    ELSE IF current_attempts + 1 >= MaxAttempts THEN 0 - Penalty
    ELSE 0

\* the streak that grows after any gap
NewStreakNeverResets(streak, last_active) ==
    IF last_active # 0
    THEN IF today - last_active >= 1 THEN streak + 1 ELSE streak
    ELSE 1

\* lines 596-609: the streak after a correct answer; last_active 0 is None
NewStreak(streak, last_active) ==
    IF last_active # 0
    THEN IF today - last_active = 1 THEN streak + 1
         ELSE IF today - last_active > 1 THEN 1
         ELSE streak
    ELSE 1

\* lines 535-649
SubmitCheck(p) ==
    LET r == req[p]
        riddle == FindRiddle(r.rid)
        current_attempts == Get(r.user.current_riddle_attempts, r.rid, 0)
        correct == IsCorrect(r.answer, riddle.answer)
        new_attempts == current_attempts + 1
        points_change == PointsChange(correct, riddle.difficulty, current_attempts)
    IN  /\ r.pc = "check"
        /\ IF riddle = NoRiddle
           THEN /\ req' = [req EXCEPT ![p] = Respond(r, [NoResp EXCEPT !.status = 404])]
                /\ UNCHANGED users
           ELSE IF Blocked(current_attempts)
           THEN /\ req' = [req EXCEPT ![p] =
                      Respond(r, [NoResp EXCEPT !.status = 400,
                                                !.detail = <<riddle.answer>>])]
                /\ UNCHANGED users
           ELSE /\ users' = [users EXCEPT ![r.uid] =
                      [@ EXCEPT !.solved = @ + 1,
                                !.current_riddle_attempts = SetKey(@, r.rid, new_attempts),
                                !.correct = IF correct THEN @ + 1 ELSE @,
                                !.points = @ + points_change,
                                !.streak = IF correct
                                           THEN NewStreak(@, r.user.last_active) ELSE @,
                                !.last_active = today]]
                /\ req' = [req EXCEPT ![p] =
                      Respond(r, [NoResp EXCEPT
                                    !.status = 200, !.correct = correct,
                                    !.answer = IF new_attempts >= MaxAttempts
                                               THEN <<riddle.answer>> ELSE <<>>,
                                    !.points_change = points_change,
                                    !.attempts_left = MaxAttempts - new_attempts])]
        /\ submitted' = IF riddle = NoRiddle THEN submitted
                         ELSE [submitted EXCEPT ![r.uid] =
                                 SetKey(@, r.rid, Min(Get(@, r.rid, 0) + 1, 3))]
        /\ awarded' = IF riddle # NoRiddle /\ ~Blocked(current_attempts) /\ correct
                       THEN [awarded EXCEPT ![r.uid] = @ \cup {r.rid}]
                       ELSE awarded
        /\ UNCHANGED <<riddles, today, daily_challenges, disclosed, multiplayer_rooms>>

(* ------------------------------ reset_history -------------------------- *)

\* the reset written with update_many: every user's history is deleted
ResetHistoryOfAll(p, u) ==
    /\ req[p].pc = "idle"
    /\ users' = [v \in DOMAIN users |-> [users[v] EXCEPT !.seen_riddles = <<>>,
                                                          !.current_riddle_attempts = <<>>]]
    /\ req' = [req EXCEPT ![p] =
          Respond([Idle EXCEPT !.kind = "reset_history", !.uid = u, !.user = users[u]],
                  [NoResp EXCEPT !.status = 200])]
    /\ submitted' = [v \in DOMAIN submitted |-> <<>>]
    /\ awarded' = [v \in DOMAIN awarded |-> {}]
    /\ UNCHANGED <<riddles, today, daily_challenges, disclosed, multiplayer_rooms>>

\* lines 1003-1009
ResetHistory(p, u) ==
    /\ req[p].pc = "idle"
    /\ users' = [users EXCEPT ![u] = [@ EXCEPT !.seen_riddles = <<>>,
                                               !.current_riddle_attempts = <<>>]]
    /\ req' = [req EXCEPT ![p] =
          Respond([Idle EXCEPT !.kind = "reset_history", !.uid = u, !.user = users[u]],
                  [NoResp EXCEPT !.status = 200])]
    /\ submitted' = [submitted EXCEPT ![u] = <<>>]
    /\ awarded' = [awarded EXCEPT ![u] = {}]
    /\ UNCHANGED <<riddles, today, daily_challenges, disclosed, multiplayer_rooms>>

(* --------------------------------- signup ------------------------------ *)

\* str(ObjectId()): the id of the n-th user document
UserId(n) == <<"u1", "u2", "u3", "u4", "u5">>[n]

\* the unique index on users.email
EmailTaken(email) == \E id \in DOMAIN users : users[id].email = email

StartSignup(p, email) ==
    /\ req[p].pc = "idle"
    /\ req' = [req EXCEPT ![p] = [Idle EXCEPT !.pc = "signup", !.kind = "signup",
                                              !.email = email]]
    /\ UNCHANGED <<riddles, users, today, submitted, daily_challenges,
                 awarded, disclosed, multiplayer_rooms>>

\* lines 347-349: find_one by email; a registered email is refused with 400
SignupFind(p) ==
    LET r == req[p] IN
    /\ r.pc = "signup"
    /\ req' = [req EXCEPT ![p] =
          IF EmailTaken(r.email)
          THEN Respond(r, [NoResp EXCEPT !.status = 400])
          ELSE [r EXCEPT !.pc = "create"]]
    /\ UNCHANGED <<riddles, users, today, submitted, daily_challenges,
                 awarded, disclosed, multiplayer_rooms>>

\* lines 351-387: insert_one under the unique index on email; the
\* DuplicateKeyError is caught by `except Exception` and answered with 500
SignupInsert(p) ==
    LET r == req[p]
        user_id == UserId(Cardinality(DOMAIN users) + 1)
    IN  /\ r.pc = "create"
        /\ IF EmailTaken(r.email)
           THEN /\ req' = [req EXCEPT ![p] = Respond(r, [NoResp EXCEPT !.status = 500])]
                /\ UNCHANGED <<users, submitted, awarded, disclosed>>
           ELSE /\ users' = [id \in DOMAIN users \cup {user_id} |->
                                IF id = user_id THEN [NewUser EXCEPT !.email = r.email]
                                ELSE users[id]]
                /\ submitted' = [id \in DOMAIN users \cup {user_id} |->
                                    IF id = user_id THEN <<>> ELSE submitted[id]]
                /\ awarded' = [id \in DOMAIN users \cup {user_id} |->
                                  IF id = user_id THEN {} ELSE awarded[id]]
                /\ disclosed' = [id \in DOMAIN users \cup {user_id} |->
                                    IF id = user_id THEN {} ELSE disclosed[id]]
                /\ req' = [req EXCEPT ![p] =
                      Respond([r EXCEPT !.uid = user_id], [NoResp EXCEPT !.status = 200])]
        /\ UNCHANGED <<riddles, today, daily_challenges, multiplayer_rooms>>

(* ------------------------------ daily challenge ------------------------ *)

DailyBonus == 50

NoChallenge == [id |-> 0, date |-> 0, riddle |-> NoRiddle, participants |-> {}]

\* the lookup without its filter on the date
FindChallengeAnyDate(date) ==
    IF daily_challenges # <<>> THEN daily_challenges[1] ELSE NoChallenge

\* find_one({"date": ...}): the first challenge stored for the date
FindChallenge(date) ==
    IF \E i \in DOMAIN daily_challenges : daily_challenges[i].date = date
    THEN daily_challenges[CHOOSE i \in DOMAIN daily_challenges :
            /\ daily_challenges[i].date = date
            /\ \A j \in DOMAIN daily_challenges :
                  daily_challenges[j].date = date => i <= j]
    ELSE NoChallenge

StartDaily(p, u) ==
    /\ req[p].pc = "idle"
    /\ req' = [req EXCEPT ![p] = [Idle EXCEPT !.pc = "daily", !.kind = "get_daily_challenge",
                                              !.uid = u, !.user = users[u]]]
    /\ UNCHANGED <<riddles, users, today, submitted, daily_challenges,
                 awarded, disclosed, multiplayer_rooms>>

\* lines 276-285: today's challenge if there is one, else generate a riddle
DailyQuery(p) ==
    LET r == req[p]
        challenge == FindChallenge(today)
    IN  /\ r.pc = "daily"
        /\ req' = [req EXCEPT ![p] =
              IF challenge # NoChallenge
              THEN Respond([r EXCEPT !.date = today, !.base = Len(riddles)],
                           [NoResp EXCEPT !.status = 200, !.id = challenge.id])
              ELSE [r EXCEPT !.pc = "gen", !.date = today, !.base = Len(riddles),
                             !.gencat = "logic"]]
        /\ UNCHANGED <<riddles, users, today, submitted, daily_challenges,
                 awarded, disclosed, multiplayer_rooms>>

\* lines 287-299 and 723-726: store the challenge, or 503 without a riddle
DailyPost(p) ==
    LET r == req[p]
        challenge == [id |-> Len(daily_challenges) + 1, date |-> r.date,
                      riddle |-> r.en, participants |-> {}]
    IN  /\ r.pc = "post"
        /\ r.kind = "get_daily_challenge"
        /\ IF r.en # NoRiddle
           THEN /\ daily_challenges' = Append(daily_challenges, challenge)
                /\ req' = [req EXCEPT ![p] =
                      Respond(r, [NoResp EXCEPT !.status = 200, !.id = challenge.id])]
           ELSE /\ req' = [req EXCEPT ![p] = Respond(r, [NoResp EXCEPT !.status = 503])]
                /\ UNCHANGED daily_challenges
        /\ UNCHANGED <<riddles, users, today, submitted, awarded, disclosed, multiplayer_rooms>>

StartDailyAnswer(p, u, answer) ==
    /\ req[p].pc = "idle"
    /\ req' = [req EXCEPT ![p] = [Idle EXCEPT !.pc = "dcheck",
                                              !.kind = "answer_daily_challenge",
                                              !.uid = u, !.user = users[u],
                                              !.answer = answer]]
    /\ UNCHANGED <<riddles, users, today, submitted, daily_challenges,
                 awarded, disclosed, multiplayer_rooms>>

\* lines 750-775 and 785-796: the checks, the verdict and the user update
DailyAnswer(p) ==
    LET r == req[p]
        challenge == FindChallenge(today)
        riddle == challenge.riddle
        correct == lower(strip(r.answer)) = lower(strip(riddle.answer))
    IN  /\ r.pc = "dcheck"
        /\ IF challenge = NoChallenge
           THEN /\ req' = [req EXCEPT ![p] =
                      Respond([r EXCEPT !.date = today], [NoResp EXCEPT !.status = 404])]
                /\ UNCHANGED users
           ELSE IF today \in Range(r.user.daily_challenges_completed)
           THEN /\ req' = [req EXCEPT ![p] =
                      Respond([r EXCEPT !.date = today], [NoResp EXCEPT !.status = 400])]
                /\ UNCHANGED users
           ELSE IF correct
           THEN /\ users' = [users EXCEPT ![r.uid] =
                      [@ EXCEPT !.points = @ + DailyBonus, !.correct = @ + 1,
                                !.solved = @ + 1,
                                !.daily_challenges_completed = AddToSet(@, today)]]
                /\ req' = [req EXCEPT ![p] =
                      [r EXCEPT !.pc = "participant", !.date = today, !.rid = challenge.id,
                                !.resp = [NoResp EXCEPT !.status = 200, !.correct = TRUE,
                                                        !.points_change = DailyBonus]]]
           ELSE /\ users' = [users EXCEPT ![r.uid] = [@ EXCEPT !.solved = @ + 1]]
                /\ req' = [req EXCEPT ![p] =
                      Respond([r EXCEPT !.date = today],
                              [NoResp EXCEPT !.status = 200,
                                             !.answer = <<riddle.answer>>])]
        /\ disclosed' = IF /\ challenge # NoChallenge
                           /\ today \notin Range(r.user.daily_challenges_completed)
                           /\ ~correct
                        THEN [disclosed EXCEPT ![r.uid] = @ \cup {today}]
                        ELSE disclosed
        /\ UNCHANGED <<riddles, today, submitted, daily_challenges,
                 awarded, multiplayer_rooms>>

\* lines 776-783: the user joins the participants of the challenge
DailyParticipant(p) ==
    LET r == req[p] IN
    /\ r.pc = "participant"
    /\ daily_challenges' =
          [i \in DOMAIN daily_challenges |->
              IF daily_challenges[i].id = r.rid
              THEN [daily_challenges[i] EXCEPT !.participants = @ \cup {r.uid}]
              ELSE daily_challenges[i]]
    /\ req' = [req EXCEPT ![p] = [r EXCEPT !.pc = "done"]]
    /\ UNCHANGED <<riddles, users, today, submitted, awarded, disclosed, multiplayer_rooms>>

(* ----------------------------- multiplayer rooms ----------------------- *)

\* the entry of a user in the players list of a room
Player(u) == [user_id |-> u, score |-> 0]

\* db.multiplayer_rooms.find_one({"_id": room_id})
FindRoom(room_id) ==
    IF \E i \in DOMAIN multiplayer_rooms : multiplayer_rooms[i].id = room_id
    THEN multiplayer_rooms[CHOOSE i \in DOMAIN multiplayer_rooms :
                              multiplayer_rooms[i].id = room_id]
    ELSE NoRoom

\* lines 863-892: the room is stored with its host as the first player and
\* with the max_players of the request, whatever its value
create_multiplayer_room(p, u, max_players) ==
    LET room_id == Len(multiplayer_rooms) + 1 IN
    /\ req[p].pc = "idle"
    /\ multiplayer_rooms' =
          Append(multiplayer_rooms,
                 [id |-> room_id, host_id |-> u, players |-> <<Player(u)>>,
                  max_players |-> max_players])
    /\ req' = [req EXCEPT ![p] =
          Respond([Idle EXCEPT !.kind = "create_multiplayer_room", !.uid = u,
                               !.user = users[u], !.rid = room_id],
                  [NoResp EXCEPT !.status = 200, !.id = room_id])]
    /\ UNCHANGED <<riddles, users, today, submitted, daily_challenges, awarded,
                   disclosed>>

StartJoin(p, u, room_id) ==
    /\ req[p].pc = "idle"
    /\ req' = [req EXCEPT ![p] = [Idle EXCEPT !.pc = "join",
                                              !.kind = "join_multiplayer_room",
                                              !.uid = u, !.user = users[u],
                                              !.rid = room_id]]
    /\ UNCHANGED <<riddles, users, today, submitted, daily_challenges, awarded,
                   disclosed, multiplayer_rooms>>

\* line 903
RoomFull(room) == Len(room.players) >= room.max_players

\* lines 898-908: the room is read and the two refusals are decided on it
JoinFind(p) ==
    LET r == req[p]
        room == FindRoom(r.rid)
        player_ids == {room.players[i].user_id : i \in DOMAIN room.players}
    IN  /\ r.pc = "join"
        /\ req' = [req EXCEPT ![p] =
              IF room = NoRoom
              THEN Respond(r, [NoResp EXCEPT !.status = 404])
              ELSE IF RoomFull(room)
              THEN Respond(r, [NoResp EXCEPT !.status = 400,
                                            !.detail = <<"Room is full">>])
              ELSE IF r.uid \in player_ids
              THEN Respond(r, [NoResp EXCEPT !.status = 400,
                                            !.detail = <<"Already in room">>])
              ELSE [r EXCEPT !.pc = "push", !.room = room]]
        /\ UNCHANGED <<riddles, users, today, submitted, daily_challenges, awarded,
                       disclosed, multiplayer_rooms>>

\* lines 910-926: $push of the player on the stored room, and the response
JoinPush(p) ==
    LET r == req[p] IN
    /\ r.pc = "push"
    /\ multiplayer_rooms' =
          [i \in DOMAIN multiplayer_rooms |->
              IF multiplayer_rooms[i].id = r.rid
              THEN [multiplayer_rooms[i] EXCEPT !.players = Append(@, Player(r.uid))]
              ELSE multiplayer_rooms[i]]
    /\ req' = [req EXCEPT ![p] =
          Respond(r, [NoResp EXCEPT !.status = 200, !.id = r.rid])]
    /\ UNCHANGED <<riddles, users, today, submitted, daily_challenges, awarded,
                   disclosed>>

\* the calendar date (UTC) advances
NextDay ==
    /\ today' = today + 1
    /\ UNCHANGED <<riddles, users, req, submitted, daily_challenges,
                 awarded, disclosed, multiplayer_rooms>>

Init ==
    /\ riddles = <<>>
    /\ users = [u \in Users |-> [NewUser EXCEPT !.email = u]]
    /\ today = 1
    /\ req = [p \in Procs |-> Idle]
    /\ submitted = [u \in Users |-> <<>>]
    /\ daily_challenges = <<>>
    /\ awarded = [u \in Users |-> {}]
    /\ disclosed = [u \in Users |-> {}]
    /\ multiplayer_rooms = <<>>

(* ----------------------------- environment ----------------------------- *)

Key == <<"k", "e", "y">>
Map == <<"m", "a", "p">>
Ink == <<"i", "n", "k">>
Q1 == <<"q">>
Q2 == <<"r">>

Failures == { Reply("error", NoText, NoText, ""), Reply("nomatch", NoText, NoText, "") }

\* replies of the generation provider: three riddles of the three difficulties
\* (one without the difficulty key)
PlainOutputs ==
    Failures \cup { Reply("json", Q1, Key, "easy"), Reply("json", Q1, Map, ""),
                    Reply("json", Q2, Ink, "hard") }

Languages == {"en", "hi", "fr"}
Categories == {"", "logic", "puzzle"}
\* an exact answer, a sentence that holds all three answers, a wrong answer
Submissions ==
    {Key, <<"k", "e", "y", " ", "m", "a", "p", " ", "i", "n", "k">>, <<"x">>}
\* outcomes of the four translate calls of one request: all translated, none
\* translated, the stored texts translated and the hashed ones not
Translations ==
    { <<TRUE, TRUE, TRUE, TRUE>>, <<FALSE, FALSE, FALSE, FALSE>>,
      <<TRUE, TRUE, FALSE, FALSE>> }

\* riddles this request may still insert
Pending(q) ==
    IF req[q].pc \in {"gen", "insert"} THEN (IF req[q].language = "hi" THEN 2 ELSE 1)
    ELSE IF req[q].pc = "post" /\ req[q].en # NoRiddle /\ req[q].language = "hi" THEN 1
    ELSE 0

\* the provider sends a candidate only while the corpus has room for it
Room(p, out, cap) ==
    out.kind = "json" =>
        Len(riddles) + Pending(p)
          + Cardinality({q \in Procs \ {p} : req[q].pc = "insert"}) <= cap

\* the steps inside generate_fresh_ai_riddle
GenStep(p, Outs, cap) ==
    \/ \E out \in Outs : Room(p, out, cap) /\ GenAttempt(p, out)
    \/ GenInsert(p)

\* the steps of a /riddle request of worker p
Deliver(p, Ls, Cs, Outs, cap) ==
    \/ \E u \in Users, l \in Ls, c \in Cs : StartDeliver(p, u, l, c)
    \/ DeliverQuery(p)
    \/ GenStep(p, Outs, cap)
    \/ \E tr \in Translations : DeliverPost(p, tr)
    \/ DeliverMark(p)
    \/ Return(p)

\* answers are sent while the user has had fewer than MaxSolved judged, and
\* to riddles whose guess channel is closed
MaySubmit(u, rid) ==
    \/ users[u].solved < MaxSolved
    \/ Get(users[u].current_riddle_attempts, rid, 0) >= MaxAttempts

\* the steps of a /check request of worker p
Submit(p) ==
    \/ \E u \in Users, rid \in 1..(PlayRiddles + 1), a \in Submissions :
          MaySubmit(u, rid) /\ StartSubmit(p, u, rid, a)
    \/ SubmitCheck(p)

Worker == "p1"

\* English play, one request at a time: deliver, submit, reset-history
Next ==
    \/ Deliver(Worker, {"en"}, {""}, PlainOutputs, PlayRiddles)
    \/ Submit(Worker)
    \/ \E u \in Users : ResetHistory(Worker, u)

Spec == Init /\ [][Next]_vars

\* English deliveries with every kind of category argument, one at a time
NextFresh ==
    \/ Deliver(Worker, {"en"}, Categories, PlainOutputs, MaxRiddles)
    \/ \E u \in Users : ResetHistory(Worker, u)

SpecFresh == Init /\ [][NextFresh]_vars

\* deliveries in every language without a category, one at a time
NextLang ==
    \/ Deliver(Worker, Languages, {""}, PlainOutputs, MaxRiddles)
    \/ \E u \in Users : ResetHistory(Worker, u)

SpecLang == Init /\ [][NextLang]_vars

\* replies that exercise the validation: an answer that differs from a stored
\* one only by case and blanks, blocklisted answers, a two-word answer, an
\* empty answer, an empty question, and two pairs with the same hash
GenOutputs ==
    Failures \cup
    { Reply("json", Q1, Key, "easy"),
      Reply("json", <<"Q", " ">>, <<"K", "e", "y", " ">>, "hard"),
      Reply("json", Q1, Map, ""),
      Reply("json", Q2, <<"e", "g", "g">>, "easy"),
      Reply("json", Q2, <<" ", "E", "g", "g">>, "easy"),
      Reply("json", Q2, <<"a", " ", "k", "e", "y">>, "easy"),
      Reply("json", Q1, NoText, "easy"),
      Reply("json", <<"k", "e">>, <<"y">>, "medium"),
      Reply("json", NoText, Key, "medium") }

\* English deliveries against every kind of provider reply, one at a time
NextGen == Deliver(Worker, {"en"}, {""}, GenOutputs, MaxRiddles)

SpecGen == Init /\ [][NextGen]_vars

\* a request that is being served goes on: each provider call returns and
\* each store operation completes
SpecGenFair == SpecGen /\ WF_vars(GenStep(Worker, GenOutputs, MaxRiddles))

\* replies with equal and with colliding question+answer pairs
DupOutputs ==
    Failures \cup
    { Reply("json", Q1, Key, "easy"),
      Reply("json", <<"Q", " ">>, <<"K", "e", "y", " ">>, "easy"),
      Reply("json", <<"q", "k">>, <<"e", "y">>, "easy"),
      Reply("json", Q1, Map, "easy") }

\* outcomes of the four translate calls of one request, with the failures
\* that come and go between the calls
AllTranslations ==
    Translations \cup { <<FALSE, FALSE, TRUE, TRUE>> }

\* the steps of one /riddle request, with more translation outcomes
DeliverAny(p, Ls, Cs, Outs, cap) ==
    \/ \E u \in Users, l \in Ls, c \in Cs : StartDeliver(p, u, l, c)
    \/ DeliverQuery(p)
    \/ GenStep(p, Outs, cap)
    \/ \E tr \in AllTranslations : DeliverPost(p, tr)
    \/ DeliverMark(p)

\* two workers serve one /riddle request each, at the same time
NextConc == \E p \in Procs : DeliverAny(p, {"en", "hi"}, {""}, DupOutputs, ConcRiddles)

SpecConc == Init /\ [][NextConc]_vars

\* the steps of a /daily-challenge request of worker p
DailyGet(p, Outs, cap) ==
    \/ \E u \in Users : StartDaily(p, u)
    \/ DailyQuery(p)
    \/ GenStep(p, Outs, cap)
    \/ DailyPost(p)
    \/ Return(p)

\* an exact answer in other case and with blanks, and two wrong answers
DailySubmissions == {<<" ", "K", "e", "y">>, Map, <<"a", " ", "k", "e", "y">>}

\* daily answers are sent while fewer than MaxDailyAnswers were judged, and
\* on dates the user has completed
MayAnswerDaily(u) ==
    \/ users[u].solved < MaxDailyAnswers
    \/ today \in Range(users[u].daily_challenges_completed)

\* the steps of a /daily-challenge/answer request of worker p
DailySubmit(p) ==
    \/ \E u \in Users, a \in DailySubmissions :
          MayAnswerDaily(u) /\ StartDailyAnswer(p, u, a)
    \/ DailyAnswer(p)
    \/ DailyParticipant(p)

\* midnight (UTC) passes, up to day MaxDay
Tick == today < MaxDay /\ NextDay

\* replies of the generation provider for the daily riddle
DailyOutputs ==
    { Reply("error", NoText, NoText, ""), Reply("json", Q1, Key, "easy"),
      Reply("json", Q2, Map, "hard"), Reply("json", Q2, Ink, "") }

\* the daily challenge over several days, one request at a time
NextDaily ==
    \/ DailyGet(Worker, DailyOutputs, MaxRiddles)
    \/ DailySubmit(Worker)
    \/ Tick

SpecDaily == Init /\ [][NextDaily]_vars

\* one worker fetches the daily challenge; both workers answer it, at the
\* same time
NextDailyConc ==
    \/ DailyGet(Worker, {Reply("json", Q1, Key, "easy")}, ConcRiddles)
    \/ \E p \in Procs : DailySubmit(p) \/ Return(p)
    \/ Tick

SpecDailyConc == Init /\ [][NextDailyConc]_vars

\* submissions around the tolerance: exact up to case and blanks, the answer
\* inside two, five and six words, inside a longer word, a part of the
\* answer, a wrong word and nothing
AnswerTexts ==
    { <<" ", "K", "e", "Y", " ">>,
      <<"a", " ", "k", "e", "y">>,
      <<"a", " ", "b", " ", "c", " ", "d", " ", "k", "e", "y">>,
      <<"a", " ", "b", " ", "c", " ", "d", " ", "e", " ", "k", "e", "y">>,
      <<"a", " ", "b", " ", " ", "c", " ", "d", " ", "e", " ", "K", "E", "Y">>,
      <<"k", "e", "y", "s">>,
      <<"k", "e">>,
      <<"k", " ", "e", "y">>,
      <<"x">>,
      <<" ">> }

\* the steps of a /check request with the submissions above
SubmitText(p) ==
    \/ \E u \in Users, rid \in 1..(PlayRiddles + 1), a \in AnswerTexts :
          MaySubmit(u, rid) /\ StartSubmit(p, u, rid, a)
    \/ SubmitCheck(p)

\* English play with submissions around the tolerance, one request at a time
NextAnswer ==
    \/ Deliver(Worker, {"en"}, {""}, PlainOutputs, PlayRiddles)
    \/ SubmitText(Worker)

SpecAnswer == Init /\ [][NextAnswer]_vars

\* replies of the generation provider and submissions for play over days
StreakOutputs ==
    { Reply("error", NoText, NoText, ""), Reply("json", Q1, Key, "easy"),
      Reply("json", Q2, Map, "hard") }

StreakSubmissions == {Key, <<"x">>}

\* the steps of a /check request during play over days
SubmitDaily(p) ==
    \/ \E u \in Users, rid \in 1..StreakRiddles, a \in StreakSubmissions :
          MaySubmit(u, rid) /\ StartSubmit(p, u, rid, a)
    \/ SubmitCheck(p)

\* English play over several days, one request at a time
NextStreak ==
    \/ Deliver(Worker, {"en"}, {""}, StreakOutputs, StreakRiddles)
    \/ SubmitDaily(Worker)
    \/ Tick

SpecStreak == Init /\ [][NextStreak]_vars

\* one worker fetches riddles; both workers serve /check requests of the
\* user, at the same time
NextSubmitConc ==
    \/ Deliver(Worker, {"en"}, {""}, {Reply("json", Q1, Key, "easy")}, StreakRiddles)
    \/ \E p \in Procs : SubmitDaily(p) \/ Return(p)

SpecSubmitConc == Init /\ [][NextSubmitConc]_vars

\* the e-mail addresses signups are sent with: a registered one and two others
Emails == {"u1", "a", "b"}

\* the steps of a /signup request of worker p, while fewer than MaxUsers
\* documents exist
Signup(p) ==
    \/ \E email \in Emails :
          Cardinality(DOMAIN users) < MaxUsers /\ StartSignup(p, email)
    \/ SignupFind(p)
    \/ SignupInsert(p)

\* two workers serve /signup requests at the same time
NextSignup == \E p \in Procs : Signup(p) \/ Return(p)

SpecSignup == Init /\ [][NextSignup]_vars

\* two workers serve /daily-challenge requests at the same time
NextDailyGetConc == \E p \in Procs : DailyGet(p, DailyOutputs, ConcRiddles)

SpecDailyGetConc == Init /\ [][NextDailyGetConc]_vars

\* replies of the generation provider while two users play: a failure and
\* one riddle
ResetOutputs == { Reply("error", NoText, NoText, ""), Reply("json", Q1, Key, "easy") }

\* a second account signs up and both users play, fetch and answer the daily
\* challenge and reset their history, one request at a time; a user sends
\* answers while fewer than ResetSolved were judged
NextReset ==
    \/ StartSignup(Worker, "a")
    \/ SignupFind(Worker)
    \/ SignupInsert(Worker)
    \/ \E u \in DOMAIN users : StartDeliver(Worker, u, "en", "")
    \/ DeliverQuery(Worker)
    \/ GenStep(Worker, ResetOutputs, StreakRiddles)
    \/ DeliverPost(Worker, <<TRUE, TRUE, TRUE, TRUE>>)
    \/ DeliverMark(Worker)
    \/ Return(Worker)
    \/ \E u \in DOMAIN users, rid \in 1..StreakRiddles, a \in StreakSubmissions :
          users[u].solved < ResetSolved /\ StartSubmit(Worker, u, rid, a)
    \/ SubmitCheck(Worker)
    \/ \E u \in DOMAIN users : StartDaily(Worker, u)
    \/ DailyQuery(Worker)
    \/ DailyPost(Worker)
    \/ \E u \in DOMAIN users, a \in StreakSubmissions :
          users[u].solved < ResetSolved /\ StartDailyAnswer(Worker, u, a)
    \/ DailyAnswer(Worker)
    \/ DailyParticipant(Worker)
    \/ \E u \in DOMAIN users : ResetHistory(Worker, u)

SpecReset == Init /\ [][NextReset]_vars

\* the accounts that play in rooms, and the state after their signups
RoomUsers == {"u1", "u2", "u3"}

InitRooms ==
    /\ riddles = <<>>
    /\ users = [u \in RoomUsers |-> [NewUser EXCEPT !.email = u]]
    /\ today = 1
    /\ req = [p \in Procs |-> Idle]
    /\ submitted = [u \in RoomUsers |-> <<>>]
    /\ daily_challenges = <<>>
    /\ awarded = [u \in RoomUsers |-> {}]
    /\ disclosed = [u \in RoomUsers |-> {}]
    /\ multiplayer_rooms = <<>>

\* the max_players values rooms are created with
RoomSizes == {0, 1, 2}

\* two workers serve /multiplayer/create and /multiplayer/join requests at
\* the same time; up to MaxRooms rooms are created
NextRooms ==
    \E p \in Procs :
        \/ \E u \in RoomUsers, n \in RoomSizes :
              Len(multiplayer_rooms) < MaxRooms /\ create_multiplayer_room(p, u, n)
        \/ \E u \in RoomUsers, room_id \in 1..(MaxRooms + 1) : StartJoin(p, u, room_id)
        \/ JoinFind(p)
        \/ JoinPush(p)
        \/ Return(p)

SpecRooms == InitRooms /\ [][NextRooms]_vars

(* ------------------------------- properties ---------------------------- *)

\* a worker that has just answered a request of the given handler
Done(p, kind) == req[p].pc = "done" /\ req[p].kind = kind

\* the attempt counter the request read for its riddle, and the stored one
Before(p) == Get(req[p].user.current_riddle_attempts, req[p].rid, 0)
After(p) == Get(users[req[p].uid].current_riddle_attempts, req[p].rid, 0)

\* C1: under sequential deliver, submit and reset-history requests every
\* stored attempt counter of every user is 0, 1 or 2.
C1_AttemptCounterAtMostTwo ==
    \A u \in Users : \A rid \in DOMAIN users[u].current_riddle_attempts :
        users[u].current_riddle_attempts[rid] \in {0, 1, 2}

\* a counter has reached 2 through two judged submissions
C1_Witness ==
    \E p \in Procs :
        /\ Done(p, "check_answer")
        /\ req[p].resp.status = 200
        /\ Before(p) = 1
        /\ After(p) = 2

\* C2: the third /check request a user sends for a riddle after its delivery
\* (no delivery of it and no reset in between) is refused with status 400 and
\* the refusal carries the riddle's stored answer, whatever the first two
\* verdicts were.
C2_ThirdSubmitExhausted ==
    \A p \in Procs :
        (Done(p, "check_answer") /\ Get(submitted[req[p].uid], req[p].rid, 0) >= 3)
            => /\ req[p].resp.status = 400
               /\ req[p].resp.detail = <<FindRiddle(req[p].rid).answer>>
               /\ users[req[p].uid] = req[p].user

\* a third submission has been refused after a correct second one
C2_Witness ==
    \E p \in Procs :
        /\ Done(p, "check_answer")
        /\ Get(submitted[req[p].uid], req[p].rid, 0) = 3
        /\ req[p].resp.status = 400
        /\ req[p].user.correct >= 1
        /\ req[p].rid \in Range(req[p].user.seen_riddles)

\* the points delta the scoring rule gives
C3_Expected(correct, difficulty, before) ==
    IF correct
    THEN (CASE difficulty = "easy" -> 10 [] difficulty = "medium" -> 15
            [] difficulty = "hard" -> 20)
         + (IF before = 0 THEN 5 ELSE 0)
    ELSE IF before + 1 = 2 THEN 0 - 5 ELSE 0

\* C3: a judged submission changes the user's points by exactly base(difficulty)
\* (easy 10, medium 15, hard 20) plus 5 on the first attempt when correct, by -5
\* when incorrect and the counter reaches 2, and by 0 with one attempt left
\* when incorrect and the counter reaches 1.
C3_PointsDelta ==
    \A p \in Procs :
        (Done(p, "check_answer") /\ req[p].resp.status = 200) =>
            LET r == req[p]
                delta == C3_Expected(r.resp.correct, FindRiddle(r.rid).difficulty, Before(p))
            IN  /\ users[r.uid].points - r.user.points = delta
                /\ r.resp.points_change = delta
                /\ After(p) = Before(p) + 1
                /\ (~r.resp.correct /\ After(p) = 1) => r.resp.attempts_left = 1

\* a medium riddle answered correctly at the first attempt: +20
C3_Witness ==
    \E p \in Procs :
        /\ Done(p, "check_answer")
        /\ req[p].resp.correct
        /\ FindRiddle(req[p].rid).difficulty = "medium"
        /\ Before(p) = 0
        /\ users[req[p].uid].points - req[p].user.points = 20

Seen(u) == Range(users[u].seen_riddles)

\* the step is the reset-history request of user u
IsReset(u) ==
    \E p \in Procs :
        /\ req[p].pc = "idle"
        /\ req'[p].pc = "done"
        /\ req'[p].kind = "reset_history"
        /\ req'[p].uid = u

\* the step is the last resort of a delivery to user u: generation gave
\* nothing, the query had found no unseen riddle, the language has riddles
IsLastResort(u) ==
    \E p \in Procs :
        /\ req[p].pc = "post"
        /\ req[p].kind = "get_random_riddle"
        /\ req[p].uid = u
        /\ req[p].en = NoRiddle
        /\ req[p].unseen = {}
        /\ \E i \in DOMAIN riddles : riddles[i].language = req[p].language
        /\ req'[p].pc = "mark"

\* C4 as stated: no step other than the user's reset-history removes an id
\* from the user's seen-set.
C4_SeenOnlyLostByReset ==
    [][\A u \in Users : Seen(u) \subseteq Seen(u)' \/ IsReset(u)]_vars

\* C4 as amended: an id leaves the seen-set only by the user's reset-history
\* or by the last resort of a delivery, which empties the seen-set.
C4_SeenLostByResetOrLastResort ==
    [][\A u \in Users :
          \/ Seen(u) \subseteq Seen(u)'
          \/ IsReset(u)
          \/ IsLastResort(u) /\ Seen(u)' = {}]_vars

\* a delivery has emptied a non-empty seen-set by its last resort
C4_Witness ==
    \E p \in Procs :
        /\ req[p].pc = "mark"
        /\ req[p].en = NoRiddle
        /\ req[p].unseen = {}
        /\ req[p].user.seen_riddles # <<>>
        /\ users[req[p].uid].seen_riddles = <<>>

\* what a finished /riddle request had in front of it, with one request at a
\* time: the seen-set it read and the corpus it queried
SeenBefore(p) == Range(req[p].user.seen_riddles)
CorpusBefore(p) == {riddles[i] : i \in 1..req[p].base}
Delivered(p) == Done(p, "get_random_riddle") /\ req[p].resp.status = 200
Exhausted(p) == req[p].en = NoRiddle /\ req[p].attempt = 5

\* riddles of the requested language the user had not seen
UnseenOfLanguage(p) ==
    {d \in CorpusBefore(p) : d.language = req[p].language /\ d.id \notin SeenBefore(p)}

\* C5 as stated: for any category argument, a delivered riddle is one the user
\* had already seen only when generation failed and every riddle of the
\* language was already seen; while a riddle of the language is unseen, the
\* delivered riddle is unseen and the seen-set is not reset.
C5_RepeatOnlyWhenLanguageExhausted ==
    \A p \in Procs :
        Delivered(p) =>
            /\ req[p].resp.id \in SeenBefore(p)
                  => Exhausted(p) /\ UnseenOfLanguage(p) = {}
            /\ UnseenOfLanguage(p) # {}
                  => /\ req[p].resp.id \notin SeenBefore(p)
                     /\ SeenBefore(p) \subseteq Seen(req[p].uid)

\* the candidates of a request: unseen riddles of the language, and of the
\* category when the category counts as given
Candidates(p, given) ==
    {d \in UnseenOfLanguage(p) : given => d.category = req[p].category}

\* with three candidates one of them is delivered without generation; with
\* fewer the generation provider is asked first
CacheRule(p, cands) ==
    Done(p, "get_random_riddle") =>
        /\ Cardinality(cands) >= 3 =>
              /\ req[p].resp.status = 200
              /\ req[p].resp.id \in {d.id : d \in cands}
              /\ req[p].calls = 0
              /\ Len(riddles) = req[p].base
        /\ Cardinality(cands) < 3 => req[p].calls >= 1

\* C6 as stated: the category narrows the candidates whenever one is given.
C6_CacheAtThreeCandidates ==
    \A p \in Procs : CacheRule(p, Candidates(p, req[p].category # ""))

\* C6 as amended: the category narrows the candidates only when it is one of
\* the six known categories; any other value is ignored.
C6_CacheAtThreeKnownCategory ==
    \A p \in Procs :
        CacheRule(p, Candidates(p, req[p].category \in
                       {"logic", "wordplay", "math", "nature", "objects", "general"}))

\* a cached riddle of the requested known category went out without generation
C6_Witness ==
    \E p \in Procs :
        /\ Delivered(p)
        /\ req[p].category = "logic"
        /\ req[p].riddle.category = "logic"
        /\ Cardinality(req[p].unseen) >= 3
        /\ req[p].calls = 0

\* C7 as stated: a /riddle request ends with a riddle or with 503, and with
\* 503 only when generation was exhausted and the corpus has no riddle of the
\* language, the user document being unchanged.
C7_RiddleOrUnavailable ==
    \A p \in Procs :
        Done(p, "get_random_riddle") =>
            /\ req[p].resp.status \in {200, 503}
            /\ req[p].resp.status = 503 =>
                  /\ Exhausted(p)
                  /\ \A i \in DOMAIN riddles : riddles[i].language # req[p].language
                  /\ users[req[p].uid] = req[p].user

\* a worker inside generate_fresh_ai_riddle, and one it has returned to
Generating(p) == req[p].pc \in {"gen", "insert"}
Returned(p) == req[p].pc = "post"

\* at most 5 provider requests; while attempting nothing is persisted or
\* raised; on return either exactly one riddle was persisted and is the
\* result, or all 5 attempts are used and nothing was persisted
C8_Outcome ==
    \A p \in Procs :
        /\ req[p].calls <= 5
        /\ Generating(p) => /\ req[p].attempt < 5
                            /\ req[p].resp = NoResp
                            /\ Len(riddles) = req[p].base
        /\ Returned(p) =>
              \/ /\ req[p].en # NoRiddle
                 /\ Len(riddles) = req[p].base + 1
                 /\ riddles[req[p].base + 1] = req[p].en
              \/ /\ req[p].en = NoRiddle
                 /\ req[p].attempt = 5
                 /\ Len(riddles) = req[p].base

\* a step of generate that does not accept a riddle uses up one attempt
C8_FailureConsumesAttempt ==
    \A p \in Procs :
        (Generating(p) /\ req'[p] # req[p] /\ req'[p].en = NoRiddle
           /\ req'[p].pc # "insert")
            => /\ req'[p].attempt = req[p].attempt + 1
               /\ req'[p].pc \in {"gen", "post"}
               /\ riddles' = riddles

\* C8: one call of generate makes at most 5 provider requests and always
\* returns, Accepted (exactly one new riddle persisted and returned) or
\* Exhausted (None, nothing persisted); every provider error, parse failure,
\* rejected candidate and store insertion error uses up one attempt and
\* never ends the request.
C8_GenerateBounded ==
    /\ []C8_Outcome
    /\ [][C8_FailureConsumesAttempt]_vars
    /\ \A p \in Procs : Generating(p) ~> Returned(p)

\* generate has returned None after 5 provider requests
C8_Witness ==
    \E p \in Procs :
        /\ Returned(p)
        /\ req[p].en = NoRiddle
        /\ req[p].calls = 5
        /\ req[p].attempt = 5

\* C10 as stated: the English riddles all have single-word answers outside
\* the blocklist, pairwise distinct.
C10_DistinctSingleWordAnswers ==
    \A i \in DOMAIN riddles :
        riddles[i].language = "en" =>
            /\ Len(split(riddles[i].answer)) = 1
            /\ riddles[i].answer \notin COMMON_ANSWERS
            /\ \A j \in DOMAIN riddles :
                  (j # i /\ riddles[j].language = "en")
                      => riddles[j].answer # riddles[i].answer

\* the trimmed and lowercased question+answer pair of a stored riddle
NormalizedPair(doc) == <<strip(lower(doc.question)), strip(lower(doc.answer))>>

\* the stored riddle_hash values are pairwise distinct
UniqueStoredHash ==
    \A i, j \in DOMAIN riddles : i # j => riddles[i].riddle_hash # riddles[j].riddle_hash

\* C9 as stated: no two riddles of the corpus have the same content hash,
\* that is the same trimmed and lowercased question+answer pair, also when
\* requests generate at the same time.
C9_NoDuplicateContent ==
    /\ UniqueStoredHash
    /\ \A i, j \in DOMAIN riddles :
          i # j => NormalizedPair(riddles[i]) # NormalizedPair(riddles[j])

\* how often the id occurs in the stored seen-set of the user
Occurrences(u, rid) ==
    Cardinality({i \in DOMAIN users[u].seen_riddles : users[u].seen_riddles[i] = rid})

\* the step is the answer of worker p to a /riddle request with a riddle
DeliverSucceeds(p) ==
    /\ req[p].kind = "get_random_riddle"
    /\ req[p].pc # "done"
    /\ req'[p].pc = "done"
    /\ req'[p].resp.status = 200

\* C11: when a /riddle request answers with riddle r, r is in the user's
\* seen-set exactly once, the user's attempt counter of r is 0 and the answer
\* is not part of the response; no seen-set ever holds an id twice.
C11_DeliverMarksSeen ==
    /\ [](\A u \in Users : \A rid \in Seen(u) : Occurrences(u, rid) = 1)
    /\ [][\A p \in Procs :
            DeliverSucceeds(p) =>
                LET rid == req'[p].resp.id
                    doc == users'[req[p].uid]
                IN  /\ rid = req[p].riddle.id
                    /\ Cardinality({i \in DOMAIN doc.seen_riddles :
                                       doc.seen_riddles[i] = rid}) = 1
                    /\ rid \in DOMAIN doc.current_riddle_attempts
                    /\ doc.current_riddle_attempts[rid] = 0
                    /\ req'[p].resp.answer = <<>>
                    /\ req'[p].resp.detail = <<>>]_vars

\* a riddle whose counter stood at 2 has been delivered again, counter 0
C11_Witness ==
    \E p \in Procs :
        /\ Delivered(p)
        /\ Get(req[p].user.current_riddle_attempts, req[p].resp.id, 0) = 2
        /\ Get(users[req[p].uid].current_riddle_attempts, req[p].resp.id, 9) = 0
        /\ Occurrences(req[p].uid, req[p].resp.id) = 1

\* the stored attempt counter of the user for the riddle
CounterOf(u, rid) == Get(users[u].current_riddle_attempts, rid, 0)

\* the step is the answer of worker p to a /check request
SubmitAnswered(p) ==
    /\ req[p].pc = "check"
    /\ req'[p].pc = "done"

\* the step marks the riddle as delivered to the user
IsDeliveryOf(u, rid) ==
    \E p \in Procs :
        /\ req[p].pc = "mark"
        /\ req[p].uid = u
        /\ req[p].riddle.id = rid
        /\ req'[p].pc = "done"

\* while the counter is 2 a /check request for the riddle is refused with 400
\* and changes nothing
ClosedRefuses(u, rid) ==
    \A p \in Procs :
        (SubmitAnswered(p) /\ req[p].uid = u /\ req[p].rid = rid)
            => /\ req'[p].resp.status = 400
               /\ users' = users

\* C12 as stated: once a counter is 2 every /check request for the riddle is
\* refused, and the counter stays 2 through every deliver and submit step
\* until the user's reset-history.
C12_ClosedUntilReset ==
    [][\A u \in Users : \A rid \in DOMAIN users[u].current_riddle_attempts :
          CounterOf(u, rid) = MaxAttempts =>
              /\ ClosedRefuses(u, rid)
              /\ CounterOf(u, rid)' = MaxAttempts \/ IsReset(u)]_vars

\* C12 as amended: the counter also leaves 2 when the riddle is delivered to
\* the user again, which sets it to 0.
C12_ClosedUntilResetOrDelivery ==
    [][\A u \in Users : \A rid \in DOMAIN users[u].current_riddle_attempts :
          CounterOf(u, rid) = MaxAttempts =>
              /\ ClosedRefuses(u, rid)
              /\ \/ CounterOf(u, rid)' = MaxAttempts
                 \/ IsReset(u)
                 \/ IsDeliveryOf(u, rid) /\ CounterOf(u, rid)' = 0]_vars

\* a /check request was refused for a closed riddle after another riddle had
\* been delivered to the user
C12_Witness ==
    \E p \in Procs :
        /\ Done(p, "check_answer")
        /\ req[p].resp.status = 400
        /\ Before(p) = MaxAttempts
        /\ Len(req[p].user.seen_riddles) = 2
        /\ req[p].user.seen_riddles[1] = req[p].rid

\* the stored challenges of a date, and all stored challenge ids
ChallengesOf(date) == {c \in Range(daily_challenges) : c.date = date}
ChallengeIds == {c.id : c \in Range(daily_challenges)}

\* the step is the answer of worker p to a /daily-challenge request
DailyAnswered(p) ==
    /\ req[p].kind = "get_daily_challenge"
    /\ req[p].pc # "done"
    /\ req'[p].pc = "done"

\* the request answers with the stored challenge of its date, without
\* generation and without storing anything
ServesStored(p) ==
    /\ req'[p].resp.status = 200
    /\ req'[p].resp.id \in {c.id : c \in ChallengesOf(req'[p].date)}
    /\ req'[p].calls = 0
    /\ daily_challenges' = daily_challenges
    /\ riddles' = riddles

\* the request stores one new challenge for its date, with a new id, and
\* answers with it
CreatesChallenge(p) ==
    /\ req'[p].resp.status = 200
    /\ Len(daily_challenges') = Len(daily_challenges) + 1
    /\ SubSeq(daily_challenges', 1, Len(daily_challenges)) = daily_challenges
    /\ daily_challenges'[Len(daily_challenges')].date = req'[p].date
    /\ daily_challenges'[Len(daily_challenges')].id = req'[p].resp.id
    /\ req'[p].resp.id \notin ChallengeIds

\* the request fails with 503 after five failed attempts and stores nothing
DailyUnavailable(p) ==
    /\ req'[p].resp.status = 503
    /\ req'[p].en = NoRiddle
    /\ req'[p].attempt = 5
    /\ daily_challenges' = daily_challenges
    /\ riddles' = riddles

OneChallengePerDate ==
    \A i, j \in DOMAIN daily_challenges :
        i # j => /\ daily_challenges[i].date # daily_challenges[j].date
                 /\ daily_challenges[i].id # daily_challenges[j].id

\* C13 as stated: a /daily-challenge request on a date that has been
\* requested before answers with the same challenge and generates nothing;
\* the first request on a date creates and returns a new challenge.
C13_OneChallengePerDate ==
    /\ []OneChallengePerDate
    /\ [][\A p \in Procs :
            DailyAnswered(p) =>
                IF ChallengesOf(req'[p].date) # {} THEN ServesStored(p)
                ELSE CreatesChallenge(p)]_vars

\* C13 as amended: a request on a date without a stored challenge creates one
\* when generation gives a riddle, and fails with 503 storing nothing when
\* generation is exhausted; the next request on that date generates again.
C13_OneChallengePerDateOrUnavailable ==
    /\ []OneChallengePerDate
    /\ [][\A p \in Procs :
            DailyAnswered(p) =>
                IF ChallengesOf(req'[p].date) # {} THEN ServesStored(p)
                ELSE CreatesChallenge(p) \/ DailyUnavailable(p)]_vars

\* on a later date the challenge created earlier that day is served again
C13_Witness ==
    \E p \in Procs :
        /\ Done(p, "get_daily_challenge")
        /\ req[p].resp.status = 200
        /\ req[p].calls = 0
        /\ req[p].date = 2
        /\ req[p].resp.id = 2
        /\ Len(daily_challenges) = 2

\* the step is the verdict of worker p on a daily answer
DailyJudged(p) ==
    /\ req[p].pc = "dcheck"
    /\ req'[p].pc # "dcheck"

\* C14 as stated: no user has a date twice in daily_challenges_completed, and
\* once the date is there every daily answer of the user on that date, also
\* one that runs at the same time as another, is refused with 400 and leaves
\* the user's points and document as they are.
C14_DailyBonusOnce ==
    /\ [](\A u \in Users : \A i, j \in DOMAIN users[u].daily_challenges_completed :
             i # j => users[u].daily_challenges_completed[i]
                        # users[u].daily_challenges_completed[j])
    /\ [][\A p \in Procs :
            (DailyJudged(p)
               /\ today \in Range(users[req[p].uid].daily_challenges_completed))
                => /\ req'[p].resp.status = 400
                   /\ users' = users]_vars

\* the number of words of a text: the places where a word begins
WordCount(s) ==
    Cardinality({i \in DOMAIN s : s[i] # " " /\ (i = 1 \/ s[i - 1] = " ")})

\* the verdict the matching rule gives
C15_Expected(given, stored) ==
    LET a == strip(lower(given))
        b == strip(lower(stored))
    IN  \/ a = b
        \/ /\ \E i \in 1..(Len(a) + 1) : \E j \in (i - 1)..Len(a) : SubSeq(a, i, j) = b
           /\ WordCount(a) <= 5

\* C15: a judged submission is marked correct exactly when, trimmed and
\* lowercased, it equals the stored answer, or the stored answer occurs in it
\* and it has at most 5 words; a submission of 6 or more words that is not
\* the answer itself is never marked correct.
C15_MatchingRule ==
    \A p \in Procs :
        (Done(p, "check_answer") /\ req[p].resp.status = 200) =>
            LET stored == FindRiddle(req[p].rid).answer IN
            /\ req[p].resp.correct <=> C15_Expected(req[p].answer, stored)
            /\ (WordCount(req[p].answer) >= 6
                  /\ strip(lower(req[p].answer)) # strip(lower(stored)))
                    => ~req[p].resp.correct

\* a submission of two words that holds the answer was marked correct
C15_Witness ==
    \E p \in Procs :
        /\ Done(p, "check_answer")
        /\ req[p].resp.status = 200
        /\ req[p].resp.correct
        /\ WordCount(req[p].answer) = 2
        /\ FindRiddle(req[p].rid).answer = Key

\* the step is a verdict of worker p on a /check request
SubmitJudged(p) ==
    /\ SubmitAnswered(p)
    /\ req'[p].resp.status = 200

\* C16: a correct submission makes the streak streak+1 when the last-active
\* date is the day before today, 1 when it is more than a day back or there
\* is none, and leaves it when the last-active date is today; an incorrect
\* submission leaves the streak as it is.
C16_StreakRule ==
    [][\A p \in Procs :
          SubmitJudged(p) =>
              LET before == users[req[p].uid]
                  after == users'[req[p].uid]
                  last == before.last_active
              IN  IF req'[p].resp.correct
                  THEN /\ last = 0 => after.streak = 1
                       /\ (last # 0 /\ last = today - 1) => after.streak = before.streak + 1
                       /\ (last # 0 /\ last < today - 1) => after.streak = 1
                       /\ last = today => after.streak = before.streak
                  ELSE after.streak = before.streak]_vars

\* a correct answer two days after the last activity: the streak is 1 again
C16_Witness ==
    \E p \in Procs :
        /\ Done(p, "check_answer")
        /\ req[p].resp.correct
        /\ req[p].user.last_active = 1
        /\ users[req[p].uid].last_active = 3
        /\ req[p].user.streak = 1
        /\ users[req[p].uid].streak = 1

\* C17: every /check request that returns a verdict adds exactly 1 to the
\* user's solved counter, sets last_active to the current date and adds
\* exactly 1 to correct if and only if the verdict is correct; correct never
\* exceeds solved.
C17_SolvedAndCorrect ==
    /\ [](\A u \in Users : users[u].correct <= users[u].solved)
    /\ [][\A p \in Procs :
            SubmitJudged(p) =>
                LET before == users[req[p].uid]
                    after == users'[req[p].uid]
                IN  /\ after.solved = before.solved + 1
                    /\ after.last_active = today
                    /\ after.correct = before.correct
                                         + (IF req'[p].resp.correct THEN 1 ELSE 0)]_vars

\* a wrong answer on a later day: solved grows, correct stays, last_active
\* moves to the day
C17_Witness ==
    \E p \in Procs :
        /\ Done(p, "check_answer")
        /\ req[p].resp.status = 200
        /\ ~req[p].resp.correct
        /\ req[p].user.correct = 1
        /\ req[p].user.last_active = 1
        /\ users[req[p].uid].solved = 2
        /\ users[req[p].uid].correct = 1
        /\ users[req[p].uid].last_active = 2

\* the step leaves every user document and the corpus as they are
NothingStored ==
    /\ users' = users
    /\ riddles' = riddles
    /\ daily_challenges' = daily_challenges

\* C18: a /check request for an id that is not in the corpus is refused with
\* 404, one for a riddle whose counter is already 2 with 400, and a refused
\* request changes no field of the user's document and nothing in the corpus.
C18_RejectedSubmitChangesNothing ==
    [][\A p \in Procs :
          SubmitAnswered(p) =>
              LET known == \E i \in DOMAIN riddles : riddles[i].id = req[p].rid
                  closed == CounterOf(req[p].uid, req[p].rid) >= 2
              IN  /\ ~known => req'[p].resp.status = 404
                  /\ (known /\ closed) => req'[p].resp.status = 400
                  /\ req'[p].resp.status \in {400, 404} => NothingStored]_vars

\* a user with points, a seen riddle and a judged answer was refused with 404
C18_Witness ==
    \E p \in Procs :
        /\ Done(p, "check_answer")
        /\ req[p].resp.status = 404
        /\ req[p].user.solved >= 1
        /\ req[p].user.points > 0
        /\ req[p].user.seen_riddles # <<>>
        /\ users[req[p].uid] = req[p].user

\* C19: with two /check requests of one user for one riddle at the same time
\* the two-guess rule is not enforced.  The guard of a request is on the
\* counter the request read when it was authenticated, and the request
\* stores that value plus one, whatever the stored counter is by then; so a
\* third submission since the delivery can be judged, and two requests that
\* read the same counter both apply their points (witness).
C19_GuardOnSnapshot ==
    [][\A p \in Procs :
          SubmitJudged(p) =>
              /\ Before(p) < MaxAttempts
              /\ CounterOf(req[p].uid, req[p].rid)' = Before(p) + 1
              /\ users'[req[p].uid].points - users[req[p].uid].points
                    = req'[p].resp.points_change]_vars

\* the third submission since the delivery was judged, as a first attempt,
\* after the stored counter had reached 2
C19_Witness ==
    \E p \in Procs :
        /\ Done(p, "check_answer")
        /\ req[p].resp.status = 200
        /\ Get(submitted[req[p].uid], req[p].rid, 0) = 3
        /\ users[req[p].uid].solved = 3
        /\ Before(p) = 0
        /\ After(p) = 1

\* the step is the answer of worker p to a /signup request
SignupAnswered(p) ==
    /\ req[p].kind = "signup"
    /\ req[p].pc # "done"
    /\ req'[p].pc = "done"

UniqueEmails ==
    \A a, b \in DOMAIN users : a # b => users[a].email # users[b].email

\* C20 as stated: no two user documents have the same email, also with
\* signups at the same time, and a signup that is answered while its email
\* is registered creates no user and is answered with 400.
C20_UniqueEmail ==
    /\ []UniqueEmails
    /\ [][\A p \in Procs :
            (SignupAnswered(p)
               /\ \E id \in DOMAIN users : users[id].email = req[p].email)
                => /\ req'[p].resp.status = 400
                   /\ users' = users]_vars

\* C21 as stated: the daily_challenges collection never holds two challenges
\* of one date, also when the first requests of a date run at the same time,
\* and the requests answered for one date carry the same challenge id.
C21_SingleChallengePerDate ==
    /\ \A i, j \in DOMAIN daily_challenges :
          i # j => daily_challenges[i].date # daily_challenges[j].date
    /\ \A p, q \in Procs :
          (/\ Done(p, "get_daily_challenge") /\ req[p].resp.status = 200
           /\ Done(q, "get_daily_challenge") /\ req[q].resp.status = 200
           /\ req[p].date = req[q].date)
              => req[p].resp.id = req[q].resp.id

\* what the fallback of a finished /riddle request must have done when its
\* generation gave nothing: with one or two candidates one of them goes out
\* and the seen-set only grows; with none, and a riddle of the language in
\* the corpus, a riddle of the language goes out and the seen-set is that id
FallbackRule(p, cands) ==
    (Done(p, "get_random_riddle") /\ Exhausted(p)) =>
        /\ Cardinality(cands) \in {1, 2} =>
              /\ req[p].resp.status = 200
              /\ req[p].resp.id \in {d.id : d \in cands}
              /\ Seen(req[p].uid) = SeenBefore(p) \cup {req[p].resp.id}
        /\ (cands = {} /\ \E d \in CorpusBefore(p) : d.language = req[p].language) =>
              /\ req[p].resp.status = 200
              /\ \E d \in CorpusBefore(p) :
                    d.language = req[p].language /\ d.id = req[p].resp.id
              /\ Seen(req[p].uid) = {req[p].resp.id}

\* C22 as stated: after exhausted generation, one or two unseen candidates of
\* the requested language and category give one of them with the seen-set
\* kept; no candidate and a non-empty corpus of the language give a riddle of
\* the language and a seen-set holding exactly the delivered id.
C22_FallbackOrder ==
    \A p \in Procs : FallbackRule(p, Candidates(p, req[p].category # ""))

\* C22 as amended: the same, the category narrowing the candidates only when
\* it is one of the six known categories.
C22_FallbackOrderKnownCategory ==
    \A p \in Procs : FallbackRule(p, Candidates(p, req[p].category \in RIDDLE_CATEGORIES))

\* a last resort has gone out: generation was exhausted, both riddles of the
\* corpus had been seen, and the seen-set is now the delivered id alone
C22_Witness ==
    \E p \in Procs :
        /\ Delivered(p)
        /\ Exhausted(p)
        /\ Cardinality(SeenBefore(p)) = 2
        /\ UnseenOfLanguage(p) = {}
        /\ Seen(req[p].uid) = {req[p].resp.id}

\* C23: the verdict of a /check request carries the stored answer only when
\* the counter after the submit is 2; a wrong first attempt carries no answer,
\* leaves the points as they were, sets the counter to 1 and leaves one
\* attempt.
C23_AnswerOnlyAtSecondAttempt ==
    \A p \in Procs :
        (Done(p, "check_answer") /\ req[p].resp.status = 200) =>
            /\ req[p].resp.answer # <<>> => CounterOf(req[p].uid, req[p].rid) = 2
            /\ (~req[p].resp.correct /\ Before(p) = 0) =>
                  /\ req[p].resp.answer = <<>>
                  /\ req[p].resp.points_change = 0
                  /\ users[req[p].uid].points = req[p].user.points
                  /\ CounterOf(req[p].uid, req[p].rid) = 1
                  /\ req[p].resp.attempts_left = 1

\* a wrong first answer to a delivered riddle has been judged
C23_Witness ==
    \E p \in Procs :
        /\ Done(p, "check_answer")
        /\ req[p].resp.status = 200
        /\ ~req[p].resp.correct
        /\ req[p].rid \in Seen(req[p].uid)
        /\ Before(p) = 0
        /\ req[p].resp.answer = <<>>
        /\ CounterOf(req[p].uid, req[p].rid) = 1

\* C24: a reset-history request empties the user's seen-set and attempt map
\* and changes nothing else: the user's points, solved, correct, streak,
\* last_active and daily_challenges_completed, every other user's document
\* and the riddle corpus stay as they were.
C24_ResetFrame ==
    [][\A u \in DOMAIN users :
          IsReset(u) =>
              /\ DOMAIN users' = DOMAIN users
              /\ users'[u] = [users[u] EXCEPT !.seen_riddles = <<>>,
                                              !.current_riddle_attempts = <<>>]
              /\ \A v \in DOMAIN users \ {u} : users'[v] = users[v]
              /\ riddles' = riddles]_vars

\* a user with points, a judged answer and a completed daily challenge has
\* reset a non-empty history while another user's history is not empty
C24_Witness ==
    \E p \in Procs :
        /\ Done(p, "reset_history")
        /\ req[p].user.seen_riddles # <<>>
        /\ req[p].user.points # 0
        /\ req[p].user.daily_challenges_completed # <<>>
        /\ users[req[p].uid].seen_riddles = <<>>
        /\ users[req[p].uid].current_riddle_attempts = <<>>
        /\ \E v \in DOMAIN users \ {req[p].uid} : users[v].seen_riddles # <<>>

\* C25 as stated: once a /check verdict of a user was correct for a riddle,
\* no later /check request of the user for that riddle raises the user's
\* points, until the user's reset-history.
C25_PointsOncePerRiddle ==
    [][\A p \in Procs :
          (SubmitAnswered(p) /\ req[p].rid \in awarded[req[p].uid])
              => users'[req[p].uid].points <= users[req[p].uid].points]_vars

\* C26 as stated: a /check request changes the user's document only for a
\* riddle that was delivered to the user, that is, whose id is in the seen-set
\* and has an attempt counter; for any other existing riddle nothing is scored.
C26_OnlyDeliveredScored ==
    [][\A p \in Procs :
          (SubmitAnswered(p) /\ users'[req[p].uid] # users[req[p].uid])
              => /\ req[p].rid \in Seen(req[p].uid)
                 /\ req[p].rid \in DOMAIN users[req[p].uid].current_riddle_attempts]_vars

\* the step is the verdict of worker p on a /daily-challenge/answer request
DailyVerdict(p) ==
    /\ req[p].pc = "dcheck"
    /\ req'[p].pc # "dcheck"

\* C27 as stated: once a /daily-challenge/answer response to a user has
\* carried the answer of a date's challenge, no later submission of the user
\* on that date is credited the bonus.
C27_NoBonusAfterDisclosure ==
    [][\A p \in Procs :
          (DailyVerdict(p) /\ today \in disclosed[req[p].uid])
              => users'[req[p].uid].points = users[req[p].uid].points]_vars

\* C28 as stated: right after a /check verdict that is correct the user's
\* streak is at least 1, whatever the user did before.
C28_StreakPositiveAfterCorrect ==
    \A p \in Procs :
        (Done(p, "check_answer") /\ req[p].resp.status = 200 /\ req[p].resp.correct)
            => users[req[p].uid].streak >= 1

\* C29: with deliver and submit requests of one user running at the same
\* time, no stored attempt counter exceeds 2: a judged /check request has
\* read a counter below 2 and stores that value plus one.
C29_StoredCounterBounded ==
    /\ \A u \in DOMAIN users : \A rid \in DOMAIN users[u].current_riddle_attempts :
          CounterOf(u, rid) <= MaxAttempts
    /\ \A p \in Procs :
          (Done(p, "check_answer") /\ req[p].resp.status = 200)
              => Before(p) + 1 <= MaxAttempts

\* two /check requests that both read the counter 1 have both been judged,
\* and the stored counter is 2
C29_Witness ==
    /\ \A p \in Procs :
          /\ Done(p, "check_answer")
          /\ req[p].resp.status = 200
          /\ req[p].rid = 1
          /\ Before(p) = 1
    /\ \A u \in Users : CounterOf(u, 1) = 2

\* the players of a room
PlayerIds(room) == {room.players[i].user_id : i \in DOMAIN room.players}

\* a room holds no more than max_players players and no user twice
RoomWellFormed(room) ==
    /\ Len(room.players) <= room.max_players
    /\ \A i, j \in DOMAIN room.players :
          i # j => room.players[i].user_id # room.players[j].user_id

\* the step is the answer of worker p to a /multiplayer/join request
JoinAnswered(p) ==
    /\ req[p].kind = "join_multiplayer_room"
    /\ req[p].pc # "done"
    /\ req'[p].pc = "done"

\* a join answered while the room is full or holds the user is refused with
\* RoomFull or AlreadyJoined, each only in its case, and changes no room
JoinRefused(p) ==
    LET room == FindRoom(req[p].rid)
        full == Len(room.players) >= room.max_players
        member == req[p].uid \in PlayerIds(room)
    IN  (room # NoRoom /\ (full \/ member)) =>
            /\ req'[p].resp.status = 400
            /\ req'[p].resp.detail \in
                  ((IF full THEN {<<"Room is full">>} ELSE {})
                     \cup (IF member THEN {<<"Already in room">>} ELSE {}))
            /\ multiplayer_rooms' = multiplayer_rooms

\* C30 as stated: for any max_players and any interleaving of joins a room
\* never holds more than max_players players nor a user twice, and a join to
\* a full room or by a member is refused (RoomFull, AlreadyJoined) and leaves
\* the room as it was.
C30_RoomCapacity ==
    /\ [](\A i \in DOMAIN multiplayer_rooms : RoomWellFormed(multiplayer_rooms[i]))
    /\ [][\A p \in Procs : JoinAnswered(p) => JoinRefused(p)]_vars

====
